---- MODULE Spec2Model ----
(***************************************************************************)
(* Model of the site crawler of src/scraper/scrape_program.py              *)
(* (class ProgramScraper): the bounded breadth-first crawl of scrape(),    *)
(* _crawl_page, the link extractor and prioritizer, the registration       *)
(* extractor and the post-crawl registration page fallback.                *)
(*                                                                         *)
(* A URL or an href is a sequence of tokens.  The tokens "O" and "X" stand *)
(* for a scheme and host ("https://example.org", "https://other.com");     *)
(* "/", "?", "#" and ";" are the characters; every other token is a word.  *)
(***************************************************************************)
EXTENDS Integers, Sequences, FiniteSets, TLC

\* ------------------------------------------------------------------ bounds
MaxPagesBound == 4
MaxDepthBound == 2
MaxUrlLen == 3
MaxAnchors == 4
MaxProviders == 2
MaxTextLen == 3
MaxBodyLen == 3
FairPagesBound == 4
FairDepthBound == 2

\* --------------------------------------------------------------- constants
Origins == {"O", "X"}
NoUrl == <<>>
None == "None"
Dates == {"2030-01-15", "2030-02-01"}

\* ------------------------------------------------------------ URL helpers
RECURSIVE IndexFrom(_, _, _)
IndexFrom(s, t, i) ==
    IF i > Len(s) THEN 0
    ELSE IF s[i] = t THEN i
    ELSE IndexFrom(s, t, i + 1)

\* str.find(t) + 1: the position of the first t in s, 0 when absent
IndexOf(s, t) == IndexFrom(s, t, 1)

RECURSIVE LastIndexFrom(_, _, _)
LastIndexFrom(s, t, i) ==
    IF i = 0 THEN 0
    ELSE IF s[i] = t THEN i
    ELSE LastIndexFrom(s, t, i - 1)

\* mutant: one trailing "/" is removed
RStripOneSlash(s) ==
    IF s # <<>> /\ s[Len(s)] = "/" THEN SubSeq(s, 1, Len(s) - 1) ELSE s

RECURSIVE RStripSlash(_)
\* str.rstrip('/'): every trailing "/" is removed
RStripSlash(s) ==
    IF s # <<>> /\ s[Len(s)] = "/"
    THEN RStripSlash(SubSeq(s, 1, Len(s) - 1))
    ELSE s

StartsWith(s, t) == s # <<>> /\ s[1] = t

\* urllib.parse._splitparams: the position of the ";" that starts the
\* parameters of the last path segment, 0 when it has none
ParamsIndex(path) ==
    LET slash == LastIndexFrom(path, "/", Len(path))
    IN  IF slash = 0 THEN IndexOf(path, ";") ELSE IndexFrom(path, ";", slash)

\* a local variable: Body of the value of x, x being computed once
With(x, Body(_)) == CHOOSE r \in { Body(v) : v \in {x} } : TRUE

\* s cut at position i: what precedes it and what follows it; all of s and
\* nothing when i is 0
CutAt(s, i) ==
    IF i = 0 THEN <<s, <<>>>>
    ELSE <<SubSeq(s, 1, i - 1), SubSeq(s, i + 1, Len(s))>>

\* urllib.parse.urlparse: the fragment is split off at the first "#", then
\* the query at the first "?" of what precedes it, then the parameters of
\* the last path segment
Urlparse(u) ==
    With(u, LAMBDA v :
      With(v # <<>> /\ v[1] \in Origins, LAMBDA hasO :
        With(IF hasO THEN Tail(v) ELSE v, LAMBDA rest :
          With(CutAt(rest, IndexOf(rest, "#")), LAMBDA byHash :
            With(CutAt(byHash[1], IndexOf(byHash[1], "?")), LAMBDA byMark :
              With(CutAt(byMark[1], ParamsIndex(byMark[1])), LAMBDA bySemi :
                [origin   |-> IF hasO THEN <<v[1]>> ELSE <<>>,
                 path     |-> bySemi[1],
                 params   |-> bySemi[2],
                 query    |-> byMark[2],
                 fragment |-> byHash[2]]))))))

\* the text scheme://netloc of a parsed URL; "://" alone when it has neither
OriginText(p) == IF p.origin = <<>> THEN <<"://">> ELSE p.origin

_normalize_url(u) ==
    With(Urlparse(u), LAMBDA parsed :
      LET normalized == OriginText(parsed) \o RStripSlash(parsed.path)
      IN  IF parsed.query # <<>>
          THEN normalized \o <<"?">> \o parsed.query
          ELSE normalized)

\* urllib.parse.urljoin(base, href) for an href that is a relative path
\* without a leading "/": it replaces the last segment of the base path
Urljoin(base, href) ==
    LET p    == Urlparse(base)
        last == LastIndexFrom(p.path, "/", Len(p.path))
        dir  == IF last = 0 THEN <<"/">> ELSE SubSeq(p.path, 1, last)
    IN  p.origin \o dir \o href

\* --------------------------------------------------- anchors and page text
\* an anchor <a href=...>text</a>; the text is one word
Anchor(href, text) == [href |-> href, text |-> text]

NonHttpPrefixes == {"mailto:", "tel:", "javascript:", "data:", "#"}
SkipExtensions == {".pdf", ".jpg", ".css", ".js", ".zip"}

\* registration_keywords of _extract_registration_info
RegistrationKeywords == {"register", "enroll", "sign-up", "signup", "sign up"}

\* registration_keywords of _is_registration_related
PriorityKeywords ==
    {"register", "registration", "enroll", "enrollment", "sign-up", "signup",
     "classes", "schedule", "programs", "sessions", "calendar", "book",
     "booking"}

\* any(kw in s for kw in kws), s a sequence of tokens
ContainsKeyword(s, kws) == \E i \in 1..Len(s) : s[i] \in kws

\* urljoin of any href: an href with its own scheme or host is kept, a
\* "/" href replaces the path, a "#" href replaces the fragment
UrljoinAny(base, href) ==
    IF href = <<>> THEN base
    ELSE IF href[1] \in Origins \/ href[1] \in (NonHttpPrefixes \ {"#"})
    THEN href
    ELSE IF href[1] = "/" THEN Urlparse(base).origin \o href
    ELSE IF href[1] = "#"
    THEN LET h == IndexOf(base, "#")
         IN  (IF h = 0 THEN base ELSE SubSeq(base, 1, h - 1)) \o href
    ELSE Urljoin(base, href)

\* self.base_url
base_url(url) == OriginText(Urlparse(url))

_is_same_domain(u, url) ==
    Urlparse(u).origin = Urlparse(url).origin \/ Urlparse(u).origin = <<>>

\* a word that begins with the letters "http" without being a scheme
HttpWords == {"http-faq"}

\* href.startswith('http')
StartsWithHttp(href) == href # <<>> /\ href[1] \in Origins \cup HttpWords

_is_valid_page_url(href) ==
    /\ href # <<>>
    /\ href[1] \notin NonHttpPrefixes
    /\ href[Len(href)] \notin SkipExtensions

\* the absolute URL _extract_internal_links makes of a valid href
FullUrl(href, current_url, url) ==
    IF StartsWith(href, "/") THEN base_url(url) \o href
    ELSE IF StartsWithHttp(href) THEN href
    ELSE UrljoinAny(current_url, href)

\* the set(links) of _extract_internal_links, before list() orders it
_extract_internal_links(anchors, current_url, url, visited) ==
    { _normalize_url(FullUrl(anchors[i].href, current_url, url)) :
        i \in { j \in 1..Len(anchors) :
                  /\ _is_valid_page_url(anchors[j].href)
                  /\ _is_same_domain(FullUrl(anchors[j].href, current_url, url), url)
                  /\ _normalize_url(FullUrl(anchors[j].href, current_url, url))
                        \notin visited } }

\* list(set(links)): the order of a Python set of strings is arbitrary
Orderings(S) ==
    { f \in [1..Cardinality(S) -> S] :
        \A i, j \in 1..Cardinality(S) : i # j => f[i] # f[j] }

_is_registration_related(u, link_text) ==
    ContainsKeyword(u, PriorityKeywords) \/ link_text \in PriorityKeywords

\* the key under which _prioritize_links files the text of an anchor
LinkTextKey(href, url) ==
    _normalize_url(IF StartsWith(href, "/") THEN base_url(url) \o href
                   ELSE IF StartsWithHttp(href) THEN href
                   ELSE UrljoinAny(url, href))

\* link_texts.get(link, ""): the text of the last anchor filed under link
LinkText(link, anchors, url) ==
    LET hits == { i \in 1..Len(anchors) : LinkTextKey(anchors[i].href, url) = link }
    IN  IF hits = {} THEN ""
        ELSE anchors[CHOOSE i \in hits : \A j \in hits : j <= i].text

\* mutant: the other links are put first
PrioritizeOthersFirst(links, anchors, url) ==
    LET IsReg(l) == _is_registration_related(l, LinkText(l, anchors, url))
        IsOther(l) == ~IsReg(l)
    IN  SelectSeq(links, IsOther) \o SelectSeq(links, IsReg)

\* registration_links + other_links, each in the order of links
_prioritize_links(links, anchors, url) ==
    LET IsReg(l) == _is_registration_related(l, LinkText(l, anchors, url))
        IsOther(l) == ~IsReg(l)
    IN  SelectSeq(links, IsReg) \o SelectSeq(links, IsOther)

\* the registration URL part of _extract_registration_info: the value of
\* data["registration_url"] after the anchor loop, given the value before
RECURSIVE RegistrationUrlFrom(_, _, _, _)
RegistrationUrlFrom(anchors, i, url, before) ==
    IF i > Len(anchors) THEN before
    ELSE LET href == anchors[i].href
             matches == /\ ~StartsWith(href, "mailto:")
                        /\ ~StartsWith(href, "tel:")
                        /\ \/ ContainsKeyword(href, RegistrationKeywords)
                           \/ anchors[i].text \in RegistrationKeywords
         IN  IF ~matches THEN RegistrationUrlFrom(anchors, i + 1, url, before)
             ELSE IF StartsWith(href, "/") THEN base_url(url) \o href
             ELSE IF StartsWithHttp(href) THEN href
             ELSE IF href # <<>> /\ href[1] \in NonHttpPrefixes \ {"#"}
             THEN RegistrationUrlFrom(anchors, i + 1, url, before)
             ELSE RStripSlash(url) \o <<"/">> \o href

\* the two keyword scans of _extract_registration_info over a page text:
\* the accepted date of the first keyword that yields one, or None
ReEnrollmentScan(text) == text.re
NewRegistrationScan(text) == text.new

\* ------------------------------------------------------------- the inputs
\* the seed URLs a caller passes: the home page, with and without the slash
Seeds == {<<"O">>, <<"O", "/">>}

\* the anchor lists a fetched page may carry
AnchorLists ==
    { <<>>,
      << Anchor(<<"/">>, "home"), Anchor(<<"/", "about", "/">>, "about") >>,
      << Anchor(<<"/", "about">>, "about"),
         Anchor(<<"/", "register">>, "register") >>,
      << Anchor(<<"/", "enroll">>, "enroll"),
         Anchor(<<"/", "classes", "#", "top">>, "classes") >>,
      << Anchor(<<"mailto:", "register">>, "register"),
         Anchor(<<"X", "/", "about">>, "about"),
         Anchor(<<"register">>, "home") >> }

\* the body text of a page a BFS fetch returns: empty, or a text with the
\* dates the two keyword scans find in it
Texts ==
    { [empty |-> TRUE, re |-> None, new |-> None] } \cup
    { [empty |-> FALSE, re |-> r, new |-> n] :
        r \in {None} \cup Dates, n \in {None} \cup Dates }

\* the body text of the registration page the fallback fetches: the dates
\* found by its re-enrollment scan, by its new-registration scan (a longer
\* keyword list) and by its generic keyword pass
FallbackTexts ==
    { [re |-> r, new |-> n, general |-> g] :
        r \in {None, "2030-01-15"}, n \in {None, "2030-02-01"},
        g \in {None, "2030-01-15"} }

\* the tokens an absolute URL is made of after its scheme and host
UrlTokens == {"/", "a", "?", "#", ";"}

\* the absolute URLs on https://example.org of at most MaxUrlLen tokens
\* after the host; the host ends at the first "/", "?" or "#"
NormalizeInputs ==
    { <<"O">> \o t : t \in
        { w \in UNION { [1..n -> UrlTokens] : n \in 0..MaxUrlLen } :
            w = <<>> \/ w[1] \in {"/", "?", "#"} } }

\* the same URL on the other host
OnOtherHost(u) == <<"X">> \o Tail(u)

\* the anchors a page under study is made of
AnchorPool ==
    { Anchor(<<"/", "about">>, "about"),
      Anchor(<<"/", "about", "/">>, "team"),
      Anchor(<<"/", "register">>, "register"),
      Anchor(<<"/", "contact", "#", "top">>, "classes"),
      Anchor(<<"http-faq">>, "faq"),
      Anchor(<<"mailto:", "office">>, "register"),
      Anchor(<<"X", "/", "about">>, "about") }

\* the pages under study: at most MaxAnchors anchors of the pool, each once,
\* in any order
PageAnchorLists ==
    UNION { { f \in [1..n -> AnchorPool] :
                \A i, j \in 1..n : i # j => f[i] # f[j] } :
            n \in 0..MaxAnchors }

\* ------------------------------------------------- dates in a page text
\* the text of a page under study is a sequence of tokens of TokenChars
\* characters each.  A token may hold a date mention at its first
\* character, a phrase at character PhraseAt and a date mention at
\* character TrailAt; a mention is at most DateChars characters long, and
\* what surrounds phrases and mentions matches no keyword and no pattern
TokenChars == 200
PhraseAt == 50
TrailAt == 80
DateChars == 20

\* the context of a keyword scan: "keyword_idx:keyword_idx + 300"
ContextChars == 300
\* the context of the generic pass: 100 characters before, 200 after
BeforeChars == 100
AfterChars == 200

IsLeap(y) == (y % 4 = 0 /\ y % 100 # 0) \/ y % 400 = 0

DaysIn(y, m) ==
    IF m \in {4, 6, 9, 11} THEN 30
    ELSE IF m = 2 THEN (IF IsLeap(y) THEN 29 ELSE 28)
    ELSE 31

\* datetime(y, m, d) does not raise ValueError
ValidDate(y, m, d) ==
    y \in 1..9999 /\ m \in 1..12 /\ d \in 1..DaysIn(y, m)

\* a parse that gave nothing
NoDate == [y |-> 0, m |-> 0, d |-> 0]

\* the calendar day a is before the calendar day b
DayBefore(a, b) ==
    \/ a.y < b.y
    \/ a.y = b.y /\ a.m < b.m
    \/ a.y = b.y /\ a.m = b.m /\ a.d < b.d

\* datetime(date) >= today, today = datetime.now(): a date is a datetime at
\* midnight, so a date of today's day passes at the stroke of midnight only
DatetimeGE(date, today) ==
    \/ DayBefore(today, date)
    \/ date.y = today.y /\ date.m = today.m /\ date.d = today.d
          /\ today.midnight

Pad2(n) == IF n < 10 THEN "0" \o ToString(n) ELSE ToString(n)

\* strftime('%Y-%m-%d') of a date of a four-digit year
Strftime(date) ==
    ToString(date.y) \o "-" \o Pad2(date.m) \o "-" \o Pad2(date.d)

\* datetime.now() when a page is scanned: 15 June or 1 September 2030, at
\* midnight sharp or later in the day
Nows ==
    { [y |-> 2030, m |-> day[1], d |-> day[2], midnight |-> b] :
        day \in { <<6, 15>>, <<9, 1>> }, b \in BOOLEAN }

\* a date written in one of the shapes "long" (January 15, 2030), "slash"
\* (01/15/2030), "iso" (2030-01-15), "short" (January 15), or "dayname-long"
\* and "dayname-short", the same after a day name; no ordinal suffix
DateMention(shape, y, m, d) == [shape |-> shape, y |-> y, m |-> m, d |-> d]

NoMention == DateMention("", 0, 0, 0)

\* a token: the mention at its start, its phrase, the mention after the
\* phrase; "" and NoMention for what it does not hold
Token(lead, phrase, trail) ==
    [lead |-> lead, phrase |-> phrase, trail |-> trail]

Filler == Token(NoMention, "", NoMention)

\* the tokens of the texts under study
TextTokens ==
    { Token(NoMention, "re-enrollment", DateMention("long", 2020, 1, 5)),
      Token(NoMention, "re-enrollment", DateMention("iso", 2030, 9, 1)),
      Token(NoMention, "returning students begins",
            DateMention("iso", 2030, 9, 1)),
      Token(DateMention("iso", 2030, 10, 5), "registration opens", NoMention),
      Token(NoMention, "deadline", NoMention),
      Token(NoMention, "", DateMention("short", 0, 6, 15)),
      Token(NoMention, "", DateMention("long", 2020, 1, 15)),
      Token(NoMention, "", DateMention("slash", 2030, 2, 30)),
      Filler }

\* the texts under study, lowercased
PageTexts == UNION { [1..n -> TextTokens] : n \in 0..MaxTextLen }

\* the keywords that occur in a phrase, each with the offset of its first
\* occurrence
Occurrences(phrase) ==
    IF phrase = "re-enrollment"
    THEN { <<"re-enrollment", 0>>, <<"enrollment", 3>> }
    ELSE IF phrase = "returning students begins"
    THEN { <<"returning students", 0>>, <<"returning students begins", 0>>,
           <<"begins", 19>> }
    ELSE IF phrase = "registration opens"
    THEN { <<"registration opens", 0>>, <<"registration", 0>>, <<"opens", 13>> }
    ELSE IF phrase = "deadline"
    THEN { <<"deadline", 0>> }
    ELSE {}

\* text_lower.find(keyword): the character index of the first occurrence
\* of the keyword, -1 when there is none
Find(text, keyword) ==
    LET hits == { j \in 1..Len(text) :
                    \E o \in Occurrences(text[j].phrase) : o[1] = keyword }
    IN  IF hits = {} THEN -1
        ELSE LET j == CHOOSE h \in hits : \A g \in hits : h <= g
                 o == CHOOSE c \in Occurrences(text[j].phrase) : c[1] = keyword
             IN  (j - 1) * TokenChars + PhraseAt + o[2]

\* the date mentions of the text, each with the character index it is at
Mentions(text) ==
    { [at |-> (j - 1) * TokenChars, mention |-> text[j].lead] :
        j \in { h \in 1..Len(text) : text[h].lead # NoMention } }
    \cup
    { [at |-> (j - 1) * TokenChars + TrailAt, mention |-> text[j].trail] :
        j \in { h \in 1..Len(text) : text[h].trail # NoMention } }

\* the date mentions that lie in text_lower[from:to]
Context(text, from, to) ==
    { c \in Mentions(text) : from <= c.at /\ c.at + DateChars <= to }

\* date_patterns, in order, each named after the shape it is written for
date_patterns ==
    << "dayname-long", "long", "slash", "iso", "dayname-short", "short" >>

\* the groups re.findall captures when the pattern matches in the mention:
\* n is their number, 0 when the pattern does not match.  The patterns
\* without a year refuse a day followed by a year, and so match the first
\* digit of a two-digit day of a mention that has a year
Match(pattern, tok) ==
    LET none == [n |-> 0, y |-> 0, m |-> 0, d |-> 0]
        full == [n |-> 3, y |-> tok.y, m |-> tok.m, d |-> tok.d]
        part == [n |-> 2, y |-> 0, m |-> tok.m,
                 d |-> IF tok.shape \in {"long", "dayname-long"}
                       THEN tok.d \div 10 ELSE tok.d]
    IN  IF pattern = "dayname-long"
        THEN IF tok.shape = "dayname-long" THEN full ELSE none
        ELSE IF pattern = "long"
        THEN IF tok.shape \in {"long", "dayname-long"} THEN full ELSE none
        ELSE IF pattern \in {"slash", "iso"}
        THEN IF tok.shape = pattern THEN full ELSE none
        ELSE IF pattern = "dayname-short"
        THEN IF \/ tok.shape = "dayname-short"
                \/ tok.shape = "dayname-long" /\ tok.d >= 10
             THEN part ELSE none
        ELSE IF \/ tok.shape \in {"short", "dayname-short"}
                \/ tok.shape \in {"long", "dayname-long"} /\ tok.d >= 10
             THEN part ELSE none

\* matches[0]: the groups of the first match of the pattern in the context
FirstMatch(pattern, context) ==
    LET hits == { c \in context : Match(pattern, c.mention).n # 0 }
    IN  IF hits = {} THEN [n |-> 0, y |-> 0, m |-> 0, d |-> 0]
        ELSE Match(pattern,
                   (CHOOSE c \in hits : \A g \in hits : c.at <= g.at).mention)

\* mutant: the test of the date against today is dropped
AcceptsAnyDate(parsed_date, today) == TRUE

\* "if parsed_date >= today"
AcceptsDate(parsed_date, today) == DatetimeGE(parsed_date, today)

\* the body of the try block for one match: the date it gives, NoDate when
\* ValueError is raised or the date is not accepted
DateOfMatch(match, today) ==
    LET current_year == today.y
        test_ok == ValidDate(current_year, match.m, match.d)
        year == IF match.n = 3 THEN match.y
                ELSE IF DatetimeGE([y |-> current_year, m |-> match.m,
                                    d |-> match.d], today)
                THEN current_year ELSE current_year + 1
        parsed_date == [y |-> year, m |-> match.m, d |-> match.d]
    IN  IF match.n = 2 /\ ~test_ok THEN NoDate
        ELSE IF ~ValidDate(year, match.m, match.d) THEN NoDate
        ELSE IF AcceptsDate(parsed_date, today) THEN parsed_date
        ELSE NoDate

RECURSIVE ParseFromPattern(_, _, _)
\* the for loop of parse_date_from_context from the i-th pattern on
ParseFromPattern(i, context, today) ==
    IF i > Len(date_patterns) THEN NoDate
    ELSE With(FirstMatch(date_patterns[i], context), LAMBDA match :
           With(IF match.n = 0 THEN NoDate ELSE DateOfMatch(match, today),
                LAMBDA found :
                  IF found # NoDate THEN found
                  ELSE ParseFromPattern(i + 1, context, today)))

parse_date_from_context(context, today) ==
    ParseFromPattern(1, context, today)

re_enrollment_keywords ==
    << "re-enrollment", "reenrollment", "re enrollment", "current students",
       "returning students", "current families", "priority registration",
       "early registration" >>

\* new_registration_keywords of _extract_registration_info
new_registration_keywords ==
    << "open enrollment", "new enrollment", "new students", "new families",
       "general registration", "public registration",
       "returning students begins", "registration opens",
       "registration begins", "enrollment opens", "enrollment begins",
       "sign up", "register by", "enroll by" >>

\* new_registration_keywords of _scrape_registration_page
page_new_registration_keywords ==
    << "open enrollment", "new enrollment", "new students", "new families",
       "general registration", "public registration", "registration opens",
       "registration begins", "enrollment opens", "enrollment begins",
       "sign up", "register by", "enroll by", "deadline", "opens on",
       "begins on", "starts on" >>

general_keywords ==
    << "registration", "enrollment", "deadline", "opens", "begins", "start" >>

\* max(0, n)
Max0(n) == IF n < 0 THEN 0 ELSE n

\* mutant: the loop has no break, the last keyword that gives a date wins
ScanWithoutBreak(k, keywords, text, today, before, after) ==
    LET DateAt(i) ==
            IF Find(text, keywords[i]) = -1 THEN NoDate
            ELSE parse_date_from_context(
                     Context(text, Max0(Find(text, keywords[i]) - before),
                             Find(text, keywords[i]) + after), today)
        giving == { i \in k..Len(keywords) : DateAt(i) # NoDate }
    IN  IF giving = {} THEN NoDate
        ELSE DateAt(CHOOSE i \in giving : \A h \in giving : h <= i)

RECURSIVE ScanFrom(_, _, _, _, _, _)
\* a "for keyword in keywords" loop from the k-th keyword on: the date of
\* the first keyword that is found and whose context gives one, else NoDate
ScanFrom(k, keywords, text, today, before, after) ==
    IF k > Len(keywords) THEN NoDate
    ELSE With(Find(text, keywords[k]), LAMBDA keyword_idx :
           With(IF keyword_idx = -1 THEN NoDate
                ELSE parse_date_from_context(
                         Context(text, Max0(keyword_idx - before),
                                 keyword_idx + after), today),
                LAMBDA found_date :
                  IF found_date # NoDate THEN found_date
                  ELSE ScanFrom(k + 1, keywords, text, today, before, after)))

\* what a scan hands to self.data: the formatted date, None without one
Stored(found_date) ==
    IF found_date = NoDate THEN None ELSE Strftime(found_date)

\* ------------------------------------------- pricing and categories
\* the text given to _extract_pricing and _extract_categories is a sequence
\* of pieces, each a sentence of its own: some words, a single dollar
\* amount, or a dollar range
Words(written) ==
    [kind |-> "words", written |-> written, low |-> "", high |-> "",
     unit |-> ""]

\* "price_min": None
NoPrice == -1

\* "$150 per month": low is the amount as written, unit the unit word
SingleAmount(low, unit) ==
    [kind |-> "single", written |-> "", low |-> low, high |-> "",
     unit |-> unit]

\* "$100-$200 per week", "$1,000 to $2,500"
AmountRange(low, high, unit) ==
    [kind |-> "range", written |-> "", low |-> low, high |-> high,
     unit |-> unit]

\* the pieces of the texts under study
BodyPieces ==
    { Words("swim"), Words("Chess"), Words("martial arts"),
      Words("science"), Words("start"), Words("Free"), Words("freedom"),
      SingleAmount("150", "Month"), SingleAmount("20", ""),
      AmountRange("100", "200", "week"), AmountRange("1,000", "2,500", "") }

BodyTexts == UNION { [1..n -> BodyPieces] : n \in 0..MaxBodyLen }

\* str.lower() on the words of the pieces
Lower(written) ==
    IF written = "Chess" THEN "chess"
    ELSE IF written = "Free" THEN "free"
    ELSE IF written = "Month" THEN "month"
    ELSE written

\* "keyword in text_lower" for one piece: the keywords of category_keywords
\* that occur in it as substrings
KeywordsIn(piece) ==
    LET lowered == Lower(piece.written)
    IN  IF lowered = "swim" THEN {"swim"}
        ELSE IF lowered = "chess" THEN {"chess"}
        ELSE IF lowered = "martial arts" THEN {"martial arts", "art"}
        ELSE IF lowered = "science" THEN {"science"}
        ELSE IF lowered = "start" THEN {"art"}
        ELSE {}

\* re.search(r'\bfree\b', text, re.IGNORECASE): a piece has the word free
HasFreeWord(text) ==
    \E j \in 1..Len(text) :
        text[j].kind = "words" /\ Lower(text[j].written) = "free"

\* float(s.replace(',', '')) of an amount as written
Float(amount) ==
    IF amount = "150" THEN 150
    ELSE IF amount = "20" THEN 20
    ELSE IF amount = "100" THEN 100
    ELSE IF amount = "200" THEN 200
    ELSE IF amount = "1,000" THEN 1000
    ELSE IF amount = "2,500" THEN 2500
    ELSE 0

\* the pieces a pattern matches, in text order
Matches(text, kinds) == SelectSeq(text, LAMBDA piece : piece.kind \in kinds)

\* range_matches: range_pattern matches the dollar ranges
range_matches(text) == Matches(text, {"range"})

\* matches: price_pattern matches a single amount, and the first amount of a
\* range, whose unit it does not reach
price_matches(text) ==
    LET AsSingle(piece) ==
            IF piece.kind = "range" THEN SingleAmount(piece.low, "") ELSE piece
        found == Matches(text, {"single", "range"})
    IN  [j \in 1..Len(found) |-> AsSingle(found[j])]

\* self.data["price_unit"] after "if match[..]: ... = f'per {unit}'"
WithUnit(prices, unit) ==
    IF unit = "" THEN prices
    ELSE [prices EXCEPT !.price_unit = "per " \o Lower(unit)]

\* mutant: dollar amounts are looked for before the word free
PricingAmountsFirst(prices, text) ==
    IF range_matches(text) # <<>>
    THEN WithUnit([prices EXCEPT
                     !.price_min = Float(range_matches(text)[1].low),
                     !.price_max = Float(range_matches(text)[1].high)],
                  range_matches(text)[1].unit)
    ELSE IF price_matches(text) # <<>>
    THEN WithUnit([prices EXCEPT
                     !.price_min = Float(price_matches(text)[1].low),
                     !.price_max = Float(price_matches(text)[1].low)],
                  price_matches(text)[1].unit)
    ELSE IF HasFreeWord(text)
    THEN [prices EXCEPT !.price_min = 0, !.price_max = 0,
                        !.price_description = "Free"]
    ELSE prices

\* the price fields of self.data after _extract_pricing(text)
_extract_pricing(prices, text) ==
    IF HasFreeWord(text)
    THEN [prices EXCEPT !.price_min = 0, !.price_max = 0,
                        !.price_description = "Free"]
    ELSE IF range_matches(text) # <<>>
    THEN WithUnit([prices EXCEPT
                     !.price_min = Float(range_matches(text)[1].low),
                     !.price_max = Float(range_matches(text)[1].high)],
                  range_matches(text)[1].unit)
    ELSE IF price_matches(text) # <<>>
    THEN WithUnit([prices EXCEPT
                     !.price_min = Float(price_matches(text)[1].low),
                     !.price_max = Float(price_matches(text)[1].low)],
                  price_matches(text)[1].unit)
    ELSE prices

\* category_keywords, in the order of the dict
category_keywords ==
    << [category |-> "swimming",
        keywords |-> {"swim", "aquatic", "water", "pool"}],
       [category |-> "art",
        keywords |-> {"art", "painting", "drawing", "sculpture", "creative"}],
       [category |-> "chess", keywords |-> {"chess"}],
       [category |-> "soccer", keywords |-> {"soccer", "football"}],
       [category |-> "music",
        keywords |-> {"music", "piano", "guitar", "violin", "instrument"}],
       [category |-> "dance", keywords |-> {"dance", "ballet", "hip hop"}],
       [category |-> "martial-arts",
        keywords |-> {"martial arts", "karate", "taekwondo", "judo",
                      "kung fu"}],
       [category |-> "technology",
        keywords |-> {"coding", "programming", "computer", "robotics",
                      "tech"}],
       [category |-> "academic",
        keywords |-> {"tutoring", "math", "science", "reading", "academic"}],
       [category |-> "science",
        keywords |-> {"science", "stem", "engineering", "physics",
                      "chemistry"}],
       [category |-> "sports",
        keywords |-> {"sports", "athletic", "fitness"}] >>

\* any(keyword in text_lower for keyword in keywords)
AnyKeywordIn(keywords, text) ==
    \E j \in 1..Len(text) : KeywordsIn(text[j]) \cap keywords # {}

\* categories[:3]
FirstThree(categories) ==
    SubSeq(categories, 1, IF Len(categories) < 3 THEN Len(categories) ELSE 3)

\* mutant: the list is stored whole
WholeList(categories) == categories

\* what the list is cut to before it is stored
Limit(categories) == FirstThree(categories)

\* self.data["category"] after _extract_categories(text)
_extract_categories(text) ==
    LET matched == SelectSeq(category_keywords,
                             LAMBDA row : AnyKeywordIn(row.keywords, text))
        categories == [j \in 1..Len(matched) |-> matched[j].category]
    IN  Limit(IF categories = <<>> THEN <<"creative">> ELSE categories)

\* the fields the orchestrator copies from a crawl to the database
Fields == {"registration_url", "re_enrollment_date", "new_registration_date"}

\* a dict with value under the keys of have, None under the others
FieldsRecord(have, value) ==
    [k \in Fields |-> IF k \in have THEN value ELSE None]

\* the fields a row of the programs table may already hold
StoredChoices ==
    { {}, {"registration_url"},
      {"re_enrollment_date", "new_registration_date"}, Fields }

\* the fields a crawl may find
FoundChoices ==
    { {}, {"registration_url"}, {"registration_url", "re_enrollment_date"},
      Fields }

\* the rows get_providers_to_scrape may return: at most MaxProviders, the
\* id of a row being its rank
ProviderLists ==
    UNION { { [i \in 1..n |-> [id |-> i, stored |-> FieldsRecord(f[i], "stored")]] :
                f \in [1..n -> StoredChoices] } :
            n \in 0..MaxProviders }

\* ---------------------------------------------------------------- state
VARIABLES
    url,                    \* self.url, the seed
    max_pages,              \* self.max_pages
    max_depth,              \* self.max_depth
    crawl,                  \* the crawl argument of scrape
    visited_urls,           \* self.visited_urls
    pages_crawled,          \* self.pages_crawled
    to_crawl,               \* the deque of <<url, depth>> of scrape
    registration_url,       \* self.data["registration_url"], NoUrl for None
    re_enrollment_date,     \* self.data["re_enrollment_date"]
    new_registration_date,  \* self.data["new_registration_date"]
    crawled_pages,          \* self.data["crawled_pages"]
    pc,                     \* position in scrape: "loop", "after", "done"
    fetches,                \* history: every page.goto of _crawl_page
    fallback_fetches,       \* history: every page.goto of the fallback
    field_runs,             \* history: the pages the field extractors ran on
    registration_runs,      \* history: the pages _extract_registration_info ran on
    session,                \* the Playwright driver and the browser of scrape
    url_a,                  \* a URL given to _normalize_url
    url_b,                  \* a second URL given to _normalize_url
    normalized,             \* what _normalize_url returned, empty before the calls
    page,                   \* a fetched page: the seed, its URL, anchors, visited set
    extracted,              \* the list _extract_internal_links returned
    ordered,                \* the list _prioritize_links returned
    frontier,               \* the entries the for loop of scrape appended
    link_pc,                \* "page", "extracted", "prioritized", "enqueued"
    providers,              \* main: the list of providers
    dry_run,                \* args.dry_run
    only_missing,           \* args.only_missing
    results,                \* main: the results dict
    batch_i,                \* main: the rank of the provider the loop is at
    sent,                   \* history: the update_program calls, and how each ended
    scrapes,                \* history: how scrape_provider ended for each provider
    batch_pc,               \* position in main: "start", "loop", "done"
    now,                    \* datetime.now() when the date scans run
    text_lower,             \* the lowercased text the date scans read
    dates,                  \* the two date fields of self.data
    date_pc,                \* "page", "extracted", "fallback"
    body_text,              \* the text given to the field extractors
    data,                   \* the price and category fields of self.data
    field_pc                \* "text", "priced", "categorized"

\* the state of one ProgramScraper.scrape
crawl_vars == << url, max_pages, max_depth, crawl, visited_urls, pages_crawled,
                 to_crawl, registration_url, re_enrollment_date,
                 new_registration_date, crawled_pages, pc, fetches,
                 fallback_fetches, field_runs, registration_runs, session >>

\* the state the crawl does not touch
norm_vars == << url_a, url_b, normalized >>
link_vars == << page, extracted, ordered, frontier, link_pc >>
batch_vars == << providers, dry_run, only_missing, results, batch_i, sent,
                 scrapes, batch_pc >>
date_vars == << now, text_lower, dates, date_pc >>
field_vars == << body_text, data, field_pc >>
outside == << norm_vars, link_vars, batch_vars, date_vars, field_vars >>

vars == << crawl_vars, outside >>

inputs == << url, max_pages, max_depth, crawl >>

\* no _normalize_url call is under study
NormalizeIdle == url_a = NoUrl /\ url_b = NoUrl /\ normalized = <<>>

\* no page's links are under study
LinksIdle ==
    /\ page = [seed |-> NoUrl, current_url |-> NoUrl, anchors |-> <<>>,
               visited |-> {}]
    /\ extracted = <<>>
    /\ ordered = <<>>
    /\ frontier = <<>>
    /\ link_pc = "idle"

\* no date scan is under study
DatesIdle ==
    /\ now = [y |-> 0, m |-> 0, d |-> 0, midnight |-> FALSE]
    /\ text_lower = <<>>
    /\ dates = [re_enrollment_date |-> None, new_registration_date |-> None]
    /\ date_pc = "idle"

\* self.data of __init__, its price and category fields
NoFields ==
    [category |-> <<>>, price_min |-> NoPrice, price_max |-> NoPrice,
     price_unit |-> None, price_description |-> None]

\* no field extraction is under study
FieldsIdle ==
    /\ body_text = <<>>
    /\ data = NoFields
    /\ field_pc = "idle"

\* no batch is under way
BatchIdle ==
    /\ providers = <<>>
    /\ dry_run = FALSE
    /\ only_missing = FALSE
    /\ results = [total |-> 0, scraped |-> 0, updated |-> 0, failed |-> 0,
                  providers |-> <<>>]
    /\ batch_i = 0
    /\ sent = <<>>
    /\ scrapes = <<>>
    /\ batch_pc = "idle"

\* ProgramScraper.__init__ followed by the start of scrape: the queue holds
\* the seed at depth 0
Init ==
    /\ url \in Seeds
    /\ max_pages \in 1..MaxPagesBound
    /\ max_depth \in 0..MaxDepthBound
    /\ crawl \in BOOLEAN
    /\ visited_urls = {}
    /\ pages_crawled = 0
    /\ to_crawl = << <<url, 0>> >>
    /\ registration_url = NoUrl
    /\ re_enrollment_date = None
    /\ new_registration_date = None
    /\ crawled_pages = <<>>
    /\ pc = "start"
    /\ session = [playwright |-> "none", browser |-> "none"]
    /\ fetches = <<>>
    /\ fallback_fetches = <<>>
    /\ field_runs = <<>>
    /\ registration_runs = <<>>
    /\ NormalizeIdle
    /\ LinksIdle
    /\ BatchIdle
    /\ DatesIdle
    /\ FieldsIdle

\* mutant: the driver is started without the with statement, nothing
\* stops it when the block is left
WithExitMissing(s) == s

\* the exit of "with sync_playwright() as p": the driver is stopped, and a
\* browser that is still open goes down with it
WithExit(s) ==
    [playwright |-> "stopped",
     browser |-> IF s.browser = "open" THEN "closed" ELSE s.browser]

\* browser.close() followed by the end of the with block
SessionAtReturn(s) == WithExit([s EXCEPT !.browser = "closed"])

\* the stages of the start of the engine, in order: sync_playwright(),
\* p.firefox.launch(), browser.new_context() and context.new_page()
StartStages == <<"playwright", "launch", "context", "page">>

\* the session when the stage numbered k raises: the driver runs once
\* stage 1 is over, the browser is open once stage 2 is over
SessionWhenStageRaises(k) ==
    LET reached == [playwright |-> IF k > 1 THEN "running" ELSE "none",
                    browser |-> IF k > 2 THEN "open" ELSE "none"]
    IN  IF k > 1 THEN WithExit(reached) ELSE reached

\* the engine starts: the loop is entered with the driver and browser up
EngineStarts ==
    /\ pc = "start"
    /\ session' = [playwright |-> "running", browser |-> "open"]
    /\ pc' = "loop"
    /\ UNCHANGED << inputs, outside, visited_urls, pages_crawled, to_crawl,
                    registration_url, re_enrollment_date, new_registration_date,
                    crawled_pages, fetches, fallback_fetches, field_runs,
                    registration_runs >>

\* a stage of the start raises (a launch timeout or any other error): the
\* with block is left and scrape raises the wrapped exception
EngineFails ==
    /\ pc = "start"
    /\ \E k \in 1..Len(StartStages) : session' = SessionWhenStageRaises(k)
    /\ pc' = "raised"
    /\ UNCHANGED << inputs, outside, visited_urls, pages_crawled, to_crawl,
                    registration_url, re_enrollment_date, new_registration_date,
                    crawled_pages, fetches, fallback_fetches, field_runs,
                    registration_runs >>

\* the condition of the while loop of scrape
LoopCondition(queue, pages) == queue # <<>> /\ pages < max_pages

\* the three early returns of _crawl_page do not apply
CrawlPageAdmits(u, depth) ==
    /\ u \notin visited_urls
    /\ pages_crawled < max_pages
    /\ depth <= max_depth

\* mutant: the break is missing
FoundAllDatesIgnored(re, new) == FALSE

\* the break of the loop: both dates found
FoundAllDates(re, new) == re # None /\ new # None

\* where scrape is after one iteration that did not continue
AfterIteration(queue, pages, re, new) ==
    IF FoundAllDates(re, new) \/ ~LoopCondition(queue, pages)
    THEN "after" ELSE "loop"

\* mutant: the page is fetched without being marked visited
MarkVisitedDropped(visited, u) == visited

\* self.visited_urls.add(url)
MarkVisited(visited, u) == visited \cup {u}

\* mutant: the page is not counted
CountPageNever(pages) == pages

\* mutant: the page is counted both by _crawl_page and by its caller
CountPageTwice(pages) == pages + 2

\* self.pages_crawled += 1
CountPage(pages) == pages + 1

\* mutant: "if soup", the text is not looked at
HasContentIgnoringText(text) == TRUE

\* "if soup and text": a parsed page is truthy, an empty body text is not
HasContent(text) == ~text.empty

\* mutant: ">=" for "=="
IsMainPageOrLater(pages) == pages >= 1

\* "if self.pages_crawled == 1": the page is the first one counted
IsMainPage(pages) == pages = 1

\* mutant: the crawl flag is not looked at
ExpandsLinksInAnyMode(depth) == depth < max_depth

\* mutant: "<=" for "<"
ExpandsLinksAtCeiling(depth) == crawl /\ depth <= max_depth

\* "if crawl and depth < self.max_depth"
ExpandsLinks(depth) == crawl /\ depth < max_depth

\* a date field after one keyword scan of _extract_registration_info
DateAfterScan(before, found) == IF found # None THEN found ELSE before

\* mutant: the links not yet visited go to the front of the queue
EnqueueAtFront(queue, links, depth, visited) ==
    LET fresh == SelectSeq(links, LAMBDA link : link \notin visited)
    IN  [j \in 1..Len(fresh) |-> <<fresh[j], depth + 1>>] \o queue

\* the for loop that appends the links not yet visited at depth + 1
RECURSIVE Enqueue(_, _, _, _)
Enqueue(queue, links, depth, visited) ==
    IF links = <<>> THEN queue
    ELSE Enqueue(IF Head(links) \notin visited
                 THEN Append(queue, <<Head(links), depth + 1>>)
                 ELSE queue,
                 Tail(links), depth, visited)

current_url == to_crawl[1][1]
current_depth == to_crawl[1][2]

\* an iteration that pops an entry already visited and continues
SkipVisited ==
    /\ pc = "loop"
    /\ current_url \in visited_urls
    /\ to_crawl' = Tail(to_crawl)
    /\ pc' = IF LoopCondition(Tail(to_crawl), pages_crawled)
             THEN "loop" ELSE "after"
    /\ UNCHANGED << inputs, outside, visited_urls, pages_crawled, registration_url,
                    re_enrollment_date, new_registration_date, crawled_pages,
                    fetches, fallback_fetches, field_runs, registration_runs,
                    session >>

\* mutant: _crawl_page has no except clause, the error leaves scrape
FetchErrorPropagates(queue, pages, re, new) == "raised"

\* "except Exception: ... return None, None, []": the error is logged and
\* swallowed, scrape goes on to the checks that end every iteration
FetchErrorRecovered(queue, pages, re, new) ==
    AfterIteration(queue, pages, re, new)

\* an iteration in which _crawl_page returns None: either one of its early
\* returns applies and nothing is fetched, or the fetch or the parse of the
\* page raises after the page has been marked and counted
CrawlReturnsNone ==
    /\ pc = "loop"
    /\ current_url \notin visited_urls
    /\ IF CrawlPageAdmits(current_url, current_depth)
       THEN /\ visited_urls' = MarkVisited(visited_urls, current_url)
            /\ pages_crawled' = CountPage(pages_crawled)
            /\ fetches' = Append(fetches,
                   [url |-> current_url, depth |-> current_depth,
                    ok |-> FALSE, empty |-> TRUE])
       ELSE UNCHANGED << visited_urls, pages_crawled, fetches >>
    /\ to_crawl' = Tail(to_crawl)
    /\ pc' = FetchErrorRecovered(to_crawl', pages_crawled',
                               re_enrollment_date, new_registration_date)
    /\ UNCHANGED << inputs, outside, registration_url, re_enrollment_date,
                    new_registration_date, crawled_pages, fallback_fetches,
                    field_runs, registration_runs, session >>

\* an iteration in which the page is fetched: anchors and text are what the
\* site returns, order is the order list(set(links)) happens to produce
CrawlSucceeds ==
    /\ pc = "loop"
    /\ current_url \notin visited_urls
    /\ CrawlPageAdmits(current_url, current_depth)
    /\ \E anchors \in AnchorLists :
         LET visited == MarkVisited(visited_urls, current_url)
             found == _extract_internal_links(anchors, current_url, url, visited)
         IN  \E links \in Orderings(found) :
               LET prioritized == _prioritize_links(links, anchors, url)
               IN  \E text \in Texts :
                   /\ visited_urls' = visited
                   /\ pages_crawled' = CountPage(pages_crawled)
                   /\ fetches' = Append(fetches,
                          [url |-> current_url, depth |-> current_depth,
                           ok |-> TRUE, empty |-> text.empty])
                   /\ crawled_pages' = Append(crawled_pages, current_url)
                   /\ IF HasContent(text)
                      THEN /\ field_runs' =
                                IF IsMainPage(pages_crawled')
                                THEN Append(field_runs, current_url)
                                ELSE field_runs
                           /\ registration_runs' =
                                Append(registration_runs, current_url)
                           /\ registration_url' =
                                RegistrationUrlFrom(anchors, 1, url, registration_url)
                           /\ re_enrollment_date' =
                                DateAfterScan(re_enrollment_date, ReEnrollmentScan(text))
                           /\ new_registration_date' =
                                DateAfterScan(new_registration_date, NewRegistrationScan(text))
                           /\ to_crawl' =
                                IF ExpandsLinks(current_depth)
                                THEN Enqueue(Tail(to_crawl), prioritized,
                                             current_depth, visited)
                                ELSE Tail(to_crawl)
                      ELSE /\ to_crawl' = Tail(to_crawl)
                           /\ UNCHANGED << field_runs, registration_runs,
                                           registration_url, re_enrollment_date,
                                           new_registration_date >>
                   /\ pc' = AfterIteration(to_crawl', pages_crawled',
                                re_enrollment_date', new_registration_date')
    /\ UNCHANGED << inputs, outside, fallback_fetches, session >>

\* the condition under which scrape calls _scrape_registration_page
FallbackCondition ==
    /\ registration_url # NoUrl
    /\ re_enrollment_date = None
    /\ new_registration_date = None
    /\ registration_url \notin visited_urls

\* scrape after the loop when the fallback is not called
NoFallback ==
    /\ pc = "after"
    /\ ~FallbackCondition
    /\ pc' = "done"
    /\ session' = SessionAtReturn(session)
    /\ UNCHANGED << inputs, outside, visited_urls, pages_crawled, to_crawl,
                    registration_url, re_enrollment_date, new_registration_date,
                    crawled_pages, fetches, fallback_fetches, field_runs,
                    registration_runs >>

\* _scrape_registration_page when the fetch raises: logged, nothing set
FallbackFails ==
    /\ pc = "after"
    /\ FallbackCondition
    /\ fallback_fetches' = Append(fallback_fetches, registration_url)
    /\ pc' = "done"
    /\ session' = SessionAtReturn(session)
    /\ UNCHANGED << inputs, outside, visited_urls, pages_crawled, to_crawl,
                    registration_url, re_enrollment_date, new_registration_date,
                    crawled_pages, fetches, field_runs, registration_runs >>

\* a date field of _scrape_registration_page after one guarded scan
DateIfMissing(before, found) ==
    IF before = None /\ found # None THEN found ELSE before

\* _scrape_registration_page when the registration page is fetched
FallbackSucceeds ==
    /\ pc = "after"
    /\ FallbackCondition
    /\ \E text \in FallbackTexts :
         /\ re_enrollment_date' = DateIfMissing(re_enrollment_date, text.re)
         /\ new_registration_date' =
              DateIfMissing(DateIfMissing(new_registration_date, text.new),
                            text.general)
    /\ fallback_fetches' = Append(fallback_fetches, registration_url)
    /\ pc' = "done"
    /\ session' = SessionAtReturn(session)
    /\ UNCHANGED << inputs, outside, visited_urls, pages_crawled, to_crawl,
                    registration_url, crawled_pages, fetches, field_runs,
                    registration_runs >>

Next ==
    \/ EngineStarts
    \/ EngineFails
    \/ SkipVisited
    \/ CrawlReturnsNone
    \/ CrawlSucceeds
    \/ NoFallback
    \/ FallbackFails
    \/ FallbackSucceeds

Spec == Init /\ [][Next]_vars

\* the start of scrape on the seed https://example.org, for the study of
\* its termination
InitFair ==
    /\ url = <<"O">>
    /\ max_pages \in 1..FairPagesBound
    /\ max_depth \in 0..FairDepthBound
    /\ crawl \in BOOLEAN
    /\ visited_urls = {}
    /\ pages_crawled = 0
    /\ to_crawl = << <<url, 0>> >>
    /\ registration_url = NoUrl
    /\ re_enrollment_date = None
    /\ new_registration_date = None
    /\ crawled_pages = <<>>
    /\ pc = "start"
    /\ session = [playwright |-> "none", browser |-> "none"]
    /\ fetches = <<>>
    /\ fallback_fetches = <<>>
    /\ field_runs = <<>>
    /\ registration_runs = <<>>
    /\ NormalizeIdle
    /\ LinksIdle
    /\ BatchIdle
    /\ DatesIdle
    /\ FieldsIdle

\* scrape is straight-line code around a loop, run by one thread: a step
\* that can be taken is taken
SpecFair == InitFair /\ [][Next]_vars /\ WF_vars(Next)

\* ------------------------------------------------- _normalize_url alone
\* no crawl is under way
CrawlIdle ==
    /\ url = NoUrl
    /\ max_pages = 0
    /\ max_depth = 0
    /\ crawl = FALSE
    /\ visited_urls = {}
    /\ pages_crawled = 0
    /\ to_crawl = <<>>
    /\ registration_url = NoUrl
    /\ re_enrollment_date = None
    /\ new_registration_date = None
    /\ crawled_pages = <<>>
    /\ pc = "idle"
    /\ session = [playwright |-> "none", browser |-> "none"]
    /\ fetches = <<>>
    /\ fallback_fetches = <<>>
    /\ field_runs = <<>>
    /\ registration_runs = <<>>

InitNormalize ==
    /\ CrawlIdle
    /\ LinksIdle
    /\ BatchIdle
    /\ DatesIdle
    /\ FieldsIdle
    /\ url_a \in NormalizeInputs
    /\ url_b \in NormalizeInputs \cup {OnOtherHost(url_a)}
    /\ normalized = <<>>

\* _normalize_url applied to both URLs, and again to the first result
Normalize ==
    /\ normalized = <<>>
    /\ normalized' = << _normalize_url(url_a), _normalize_url(url_b),
                        _normalize_url(_normalize_url(url_a)) >>
    /\ UNCHANGED << crawl_vars, date_vars, field_vars,
                    link_vars, batch_vars, url_a, url_b >>

NextNormalize == Normalize

SpecNormalize == InitNormalize /\ [][NextNormalize]_vars

\* ------------------------------------------- the links of one fetched page
\* a page of the site https://example.org has been fetched: the home page
\* or /about, which scrape has put in visited_urls along with the seed, and
\* the anchors of the page
InitLinks ==
    /\ CrawlIdle
    /\ NormalizeIdle
    /\ BatchIdle
    /\ DatesIdle
    /\ FieldsIdle
    /\ \E seed \in {<<"O">>} :
       \E at \in {seed, <<"O", "/", "about">>} :
       \E anchors \in PageAnchorLists :
           page = [seed |-> seed, current_url |-> at, anchors |-> anchors,
                   visited |-> {seed, at}]
    /\ extracted = <<>>
    /\ ordered = <<>>
    /\ frontier = <<>>
    /\ link_pc = "page"

\* links = self._extract_internal_links(soup, url), in one of the orders
\* list(set(links)) can give
ExtractLinks ==
    /\ link_pc = "page"
    /\ extracted' \in Orderings(_extract_internal_links(page.anchors,
                      page.current_url, page.seed, page.visited))
    /\ link_pc' = "extracted"
    /\ UNCHANGED << crawl_vars, date_vars, field_vars,
                    norm_vars, batch_vars, page, ordered, frontier >>

\* links = self._prioritize_links(links, soup)
PrioritizeLinks ==
    /\ link_pc = "extracted"
    /\ ordered' = _prioritize_links(extracted, page.anchors, page.seed)
    /\ link_pc' = "prioritized"
    /\ UNCHANGED << crawl_vars, date_vars, field_vars,
                    norm_vars, batch_vars, page, extracted, frontier >>

\* the for loop of scrape over the links _crawl_page returned
EnqueueLinks ==
    /\ link_pc = "prioritized"
    /\ frontier' = Enqueue(<<>>, ordered, 0, page.visited)
    /\ link_pc' = "enqueued"
    /\ UNCHANGED << crawl_vars, date_vars, field_vars,
                    norm_vars, batch_vars, page, extracted, ordered >>

NextLinks ==
    \/ ExtractLinks
    \/ PrioritizeLinks
    \/ EnqueueLinks

SpecLinks == InitLinks /\ [][NextLinks]_vars

\* ------------------------------------------------ the batch orchestrator
InitBatch ==
    /\ CrawlIdle
    /\ NormalizeIdle
    /\ LinksIdle
    /\ DatesIdle
    /\ FieldsIdle
    /\ providers \in ProviderLists
    /\ dry_run \in BOOLEAN
    /\ only_missing \in BOOLEAN
    /\ results = [total |-> 0, scraped |-> 0, updated |-> 0, failed |-> 0,
                  providers |-> <<>>]
    /\ batch_i = 0
    /\ sent = <<>>
    /\ scrapes = <<>>
    /\ batch_pc = "start"

\* the filter of --only-missing: a provider that lacks one of the fields
MissingInfo(p) == \E k \in Fields : p.stored[k] = None

\* main up to the loop: the list is filtered and the results dict made
BatchStart ==
    /\ batch_pc = "start"
    /\ providers' = IF only_missing THEN SelectSeq(providers, MissingInfo)
                    ELSE providers
    /\ results' = [total |-> Len(providers'), scraped |-> 0, updated |-> 0,
                   failed |-> 0, providers |-> <<>>]
    /\ batch_i' = 1
    /\ batch_pc' = "loop"
    /\ UNCHANGED << crawl_vars, date_vars, field_vars,
                    norm_vars, link_vars, dry_run, only_missing,
                    sent, scrapes >>

\* mutant: the error entry is appended without counting the failure
RecordFailureUncounted(res, p) ==
    [res EXCEPT !.providers = Append(@, [id |-> p.id, error |-> TRUE,
                                         found |-> FieldsRecord({}, None),
                                         updates |-> {}])]

\* the else branch of "if scraped": failed is counted and one error entry
\* appended
RecordFailure(res, p) ==
    [res EXCEPT !.failed = @ + 1,
                !.providers = Append(@, [id |-> p.id, error |-> TRUE,
                                         found |-> FieldsRecord({}, None),
                                         updates |-> {}])]

\* mutant: a found value is written whatever the row holds
PrepareUpdatesOverwriting(found, stored) ==
    { <<k, found[k]>> : k \in { f \in Fields : found[f] # None } }

\* the updates dict: a key is set when the crawl found a value for it and
\* the provider has none
PrepareUpdates(found, stored) ==
    { <<k, found[k]>> :
        k \in { f \in Fields : found[f] # None /\ stored[f] = None } }

\* an iteration in which scrape_provider returns None: the provider has no
\* website, or ProgramScraper.scrape raised (a failed engine start, a
\* timeout or any other exception, wrapped) and the except clause caught it
ProviderFails ==
    /\ batch_pc = "loop"
    /\ batch_i <= Len(providers)
    /\ results' = RecordFailure(results, providers[batch_i])
    /\ scrapes' = Append(scrapes, "failed")
    /\ batch_i' = batch_i + 1
    /\ UNCHANGED << crawl_vars, date_vars, field_vars,
                    norm_vars, link_vars, providers, dry_run,
                    only_missing, sent, batch_pc >>

\* an iteration in which scrape_provider returns what the crawl found; the
\* update, when one is sent, succeeds or fails
ProviderScraped ==
    /\ batch_pc = "loop"
    /\ batch_i <= Len(providers)
    /\ \E have \in FoundChoices, update_ok \in BOOLEAN :
         LET p == providers[batch_i]
             found == FieldsRecord(have, "found")
             updates == PrepareUpdates(found, p.stored)
             sends == updates # {} /\ ~dry_run
         IN  /\ results' =
                  [results EXCEPT
                     !.scraped = @ + 1,
                     !.providers = Append(@, [id |-> p.id, error |-> FALSE,
                                              found |-> found,
                                              updates |-> updates]),
                     !.updated = IF sends /\ update_ok THEN @ + 1 ELSE @]
             /\ sent' = IF sends
                        THEN Append(sent, [id |-> p.id, updates |-> updates,
                                           ok |-> update_ok])
                        ELSE sent
    /\ scrapes' = Append(scrapes, "scraped")
    /\ batch_i' = batch_i + 1
    /\ UNCHANGED << crawl_vars, date_vars, field_vars,
                    norm_vars, link_vars, providers, dry_run,
                    only_missing, batch_pc >>

\* the loop is over: the summary is printed
BatchFinish ==
    /\ batch_pc = "loop"
    /\ batch_i > Len(providers)
    /\ batch_pc' = "done"
    /\ UNCHANGED << crawl_vars, date_vars, field_vars,
                    norm_vars, link_vars, providers, dry_run,
                    only_missing, results, batch_i, sent, scrapes >>

NextBatch ==
    \/ BatchStart
    \/ ProviderFails
    \/ ProviderScraped
    \/ BatchFinish

SpecBatch == InitBatch /\ [][NextBatch]_vars

\* ------------------------------------------------- the date scans alone
\* what a date field holds when a page is scanned: nothing, or the date an
\* earlier page of the crawl gave
EarlierDates == {None, "2030-10-05"}

\* a page text reaches the date scans, at one of the moments under study
InitDates ==
    /\ CrawlIdle
    /\ NormalizeIdle
    /\ LinksIdle
    /\ BatchIdle
    /\ FieldsIdle
    /\ now \in Nows
    /\ text_lower \in PageTexts
    /\ dates \in [re_enrollment_date : EarlierDates,
                  new_registration_date : EarlierDates]
    /\ date_pc = "page"

\* a "for keyword in ..." loop with the context that starts at the keyword:
\* what it would store
KeywordScan(keywords, text, today) ==
    Stored(ScanFrom(1, keywords, text, today, 0, ContextChars))

\* the loop over general_keywords, with the context around the keyword
GeneralScan(text, today) ==
    Stored(ScanFrom(1, general_keywords, text, today, BeforeChars, AfterChars))

\* the date part of _extract_registration_info on the text of a page
ExtractRegistrationInfo ==
    /\ date_pc = "page"
    /\ dates' =
         [re_enrollment_date |->
              DateAfterScan(dates.re_enrollment_date,
                  KeywordScan(re_enrollment_keywords, text_lower, now)),
          new_registration_date |->
              DateAfterScan(dates.new_registration_date,
                  KeywordScan(new_registration_keywords, text_lower, now))]
    /\ date_pc' = "extracted"
    /\ UNCHANGED << crawl_vars, norm_vars, link_vars, batch_vars, field_vars,
                    now,
                    text_lower >>

\* the date part of _scrape_registration_page on the text of the
\* registration page; scrape calls it with both dates unset
ScrapeRegistrationPage ==
    /\ date_pc = "page"
    /\ dates.re_enrollment_date = None
    /\ dates.new_registration_date = None
    /\ dates' =
         [re_enrollment_date |->
              DateIfMissing(dates.re_enrollment_date,
                  KeywordScan(re_enrollment_keywords, text_lower, now)),
          new_registration_date |->
              DateIfMissing(
                  DateIfMissing(dates.new_registration_date,
                      KeywordScan(page_new_registration_keywords, text_lower,
                                  now)),
                  GeneralScan(text_lower, now))]
    /\ date_pc' = "fallback"
    /\ UNCHANGED << crawl_vars, norm_vars, link_vars, batch_vars, field_vars,
                    now,
                    text_lower >>

NextDates ==
    \/ ExtractRegistrationInfo
    \/ ScrapeRegistrationPage

SpecDates == InitDates /\ [][NextDates]_vars

\* ------------------------------- the pricing and category extractors alone
\* the text of the main page reaches the two extractors, which run when
\* pages_crawled is 1, on the fields as __init__ made them
InitFields ==
    /\ CrawlIdle
    /\ NormalizeIdle
    /\ LinksIdle
    /\ BatchIdle
    /\ DatesIdle
    /\ body_text \in BodyTexts
    /\ data = NoFields
    /\ field_pc = "text"

\* the price fields of a record
PricesOf(record) ==
    [price_min |-> record.price_min, price_max |-> record.price_max,
     price_unit |-> record.price_unit,
     price_description |-> record.price_description]

\* self._extract_pricing(text)
ExtractPricing ==
    /\ field_pc = "text"
    /\ data' = With(_extract_pricing(PricesOf(data), body_text),
                    LAMBDA prices :
                      [data EXCEPT
                         !.price_min = prices.price_min,
                         !.price_max = prices.price_max,
                         !.price_unit = prices.price_unit,
                         !.price_description = prices.price_description])
    /\ field_pc' = "priced"
    /\ UNCHANGED << crawl_vars, norm_vars, link_vars, batch_vars, date_vars,
                    body_text >>

\* self._extract_categories(text), the next statement
ExtractCategories ==
    /\ field_pc = "priced"
    /\ data' = [data EXCEPT !.category = _extract_categories(body_text)]
    /\ field_pc' = "categorized"
    /\ UNCHANGED << crawl_vars, norm_vars, link_vars, batch_vars, date_vars,
                    body_text >>

NextFields ==
    \/ ExtractPricing
    \/ ExtractCategories

SpecFields == InitFields /\ [][NextFields]_vars

\* ------------------------------------------------------------ properties
BothDatesSet == re_enrollment_date # None /\ new_registration_date # None

RECURSIVE UrlsOf(_)
UrlsOf(fs) == IF fs = <<>> THEN <<>> ELSE <<Head(fs).url>> \o UrlsOf(Tail(fs))

NoDuplicates(s) == \A i, j \in 1..Len(s) : i # j => s[i] # s[j]

\* C1: in every reachable state of a crawl with maxPages >= 1 the counter
\* pagesCrawled is at most maxPages.
C1_PagesCrawledAtMostMaxPages == pages_crawled <= max_pages

\* the page limit stopped a crawl that still had a frontier
C1_Witness ==
    /\ pc = "after"
    /\ max_pages >= 2
    /\ pages_crawled = max_pages
    /\ to_crawl # <<>>

\* C2 (as claimed): once reEnrollmentDate or newRegistrationDate is set, no
\* later step changes it to a different value.
C2_DatesWriteOnce ==
    [][ /\ re_enrollment_date # None => re_enrollment_date' = re_enrollment_date
        /\ new_registration_date # None =>
             new_registration_date' = new_registration_date ]_vars

\* C3: no page is fetched at a depth greater than maxDepth, every frontier
\* entry has depth <= maxDepth, and an iteration on a page at depth >=
\* maxDepth enqueues nothing.
C3_DepthCeiling ==
    /\ [](/\ \A i \in 1..Len(fetches) : fetches[i].depth <= max_depth
          /\ \A i \in 1..Len(to_crawl) : to_crawl[i][2] <= max_depth)
    /\ [][ (pc = "loop" /\ to_crawl[1][2] >= max_depth)
             => to_crawl' = Tail(to_crawl) ]_vars

\* a page with content was fetched at the depth ceiling, below the page
\* limit, and the crawl ended with an empty frontier
C3_Witness ==
    /\ pc = "done"
    /\ crawl
    /\ max_depth >= 1
    /\ pages_crawled < max_pages
    /\ to_crawl = <<>>
    /\ \E i \in 1..Len(fetches) :
         /\ fetches[i].depth = max_depth
         /\ fetches[i].ok
         /\ ~fetches[i].empty

\* C4: no step removes an element of visitedUrls, and crawledPages never
\* holds the same URL string twice.
C4_VisitedGrowsCrawledDistinct ==
    [][ /\ visited_urls \subseteq visited_urls'
        /\ NoDuplicates(crawled_pages') ]_vars

\* a URL discovered on two pages is at the head of the frontier again
\* after it has been crawled
C4_Witness ==
    /\ pc = "loop"
    /\ Len(crawled_pages) >= 3
    /\ to_crawl[1][1] \in visited_urls
    /\ \E i \in 1..Len(crawled_pages) : crawled_pages[i] = to_crawl[1][1]

\* C5 (as claimed): the normalized forms of the URLs of any two BFS fetches
\* differ, the seed as given by the caller included.
C5_NoPageFetchedTwice ==
    \A i, j \in 1..Len(fetches) :
        i # j => _normalize_url(fetches[i].url) # _normalize_url(fetches[j].url)

\* C6: once both dates are set no further page is fetched, neither by the
\* BFS nor by the fallback.
C6_HaltWhenBothDatesSet ==
    [][ BothDatesSet =>
          /\ fetches' = fetches
          /\ fallback_fetches' = fallback_fetches ]_vars

\* the crawl is over with both dates set, pages to spare, a frontier that
\* is not empty and a registration URL that was not visited
C6_Witness ==
    /\ pc = "done"
    /\ BothDatesSet
    /\ to_crawl # <<>>
    /\ to_crawl[1][1] \notin visited_urls
    /\ pages_crawled < max_pages
    /\ registration_url # NoUrl
    /\ registration_url \notin visited_urls

C9_FallbackWhenAnyDateMissing ==
    [][ pc = "after" =>
          ( ( /\ registration_url # NoUrl
              /\ registration_url \notin visited_urls
              /\ (re_enrollment_date = None \/ new_registration_date = None) )
            <=> Len(fallback_fetches') = Len(fallback_fetches) + 1 ) ]_vars

\* C10 (as claimed): once a BFS page has set registrationUrl, the
\* registration extractor on a later BFS page leaves it unchanged.
C10_RegistrationUrlFirstMatchWins ==
    [][ (pc = "loop" /\ registration_url # NoUrl)
          => registration_url' = registration_url ]_vars

\* a step of the loop in which the fetch of a page raised
FetchFailedStep ==
    /\ Len(fetches') = Len(fetches) + 1
    /\ ~fetches'[Len(fetches')].ok

C18_WitnessReturn ==
    /\ pc = "done"
    /\ session.browser = "closed"
    /\ pages_crawled > 0

\* C13: _normalize_url is idempotent: normalizing the normal form of a URL
\* gives the normal form back
C13_NormalizeIdempotent ==
    normalized # <<>> => normalized[3] = normalized[1]

\* p and q are the same path but for a run of "/" at the end of one of them
SameUpToTrailingSlashes(p, q) ==
    \E k \in 0..(Len(p) + Len(q)) :
        LET run == [i \in 1..k |-> "/"]
        IN  p = q \o run \/ q = p \o run

\* p and q are the same path but for one "/" at the end of one of them
SameUpToOneTrailingSlash(p, q) ==
    p = q \/ p = q \o <<"/">> \/ q = p \o <<"/">>

\* C14 as stated: two URLs have the same normal form exactly when they are
\* the same but for the fragment and one trailing slash of the path
C14_SameNormalFormIffOneSlashOrFragment ==
    normalized # <<>> =>
        LET pa == Urlparse(url_a)
            pb == Urlparse(url_b)
        IN  normalized[1] = normalized[2] <=>
               /\ pa.origin = pb.origin
               /\ pa.params = pb.params
               /\ pa.query = pb.query
               /\ SameUpToOneTrailingSlash(pa.path, pb.path)

\* C14 amended: two absolute URLs have the same normal form exactly when
\* urlparse gives them the same scheme and host, the same query, and paths
\* that are the same but for any number of trailing slashes; the fragment
\* and the parameters of the last segment play no part
C14_SameNormalFormIffSlashesOrFragment ==
    normalized # <<>> =>
        LET pa == Urlparse(url_a)
            pb == Urlparse(url_b)
        IN  normalized[1] = normalized[2] <=>
               /\ pa.origin = pb.origin
               /\ pa.query = pb.query
               /\ SameUpToTrailingSlashes(pa.path, pb.path)

\* two URLs whose paths differ by two trailing slashes and whose fragments
\* differ were normalized to the same string
C14_Witness ==
    /\ normalized # <<>>
    /\ normalized[1] = normalized[2]
    /\ Urlparse(url_a).path = Urlparse(url_b).path \o <<"/", "/">>
    /\ Urlparse(url_a).fragment # Urlparse(url_b).fragment

\* the position of e in the list s, 0 when absent
PositionIn(s, e) ==
    IF \E i \in 1..Len(s) : s[i] = e
    THEN CHOOSE i \in 1..Len(s) : s[i] = e /\ \A j \in 1..(i - 1) : s[j] # e
    ELSE 0

\* the link is registration-related on the page under study
PageLinkIsReg(l) ==
    _is_registration_related(l, LinkText(l, page.anchors, page.seed))

\* C15: the list _prioritize_links returns is a permutation of its input
\* in which every registration-related link precedes every other link and
\* the links of each group keep the relative order they had in the input
C15_PrioritizeStablePartition ==
    link_pc \in {"prioritized", "enqueued"} =>
        /\ Len(ordered) = Len(extracted)
        /\ \A i \in 1..Len(extracted) : PositionIn(ordered, extracted[i]) # 0
        /\ LET reg == { i \in 1..Len(ordered) : PageLinkIsReg(ordered[i]) }
           IN  \A i, j \in 1..Len(ordered) :
                 i < j =>
                   /\ j \in reg => i \in reg
                   /\ (i \in reg) = (j \in reg)
                        => PositionIn(extracted, ordered[i])
                             < PositionIn(extracted, ordered[j])

\* an input of the shape <<other, registration, other, registration>> was
\* prioritized
C15_Witness ==
    /\ link_pc = "prioritized"
    /\ Len(extracted) = 4
    /\ ~PageLinkIsReg(extracted[1])
    /\ PageLinkIsReg(extracted[2])
    /\ ~PageLinkIsReg(extracted[3])
    /\ PageLinkIsReg(extracted[4])
    /\ ordered = << extracted[2], extracted[4], extracted[1], extracted[3] >>

\* the anchors of the page under study that give the link l
AnchorsOf(l) ==
    { i \in 1..Len(page.anchors) :
        /\ _is_valid_page_url(page.anchors[i].href)
        /\ _normalize_url(FullUrl(page.anchors[i].href, page.current_url,
                                  page.seed)) = l }

\* C16: the list _extract_internal_links returns has no duplicates, and
\* each of its elements is a URL without fragment or trailing slash, on
\* the host of the crawl, not in visited_urls, that comes from an anchor
\* whose href is not a mailto:, tel:, javascript:, data: or "#" one
C16_ExtractedLinksOwnHostNormalized ==
    link_pc # "page" =>
        /\ NoDuplicates(extracted)
        /\ \A i \in 1..Len(extracted) :
             LET parsed == Urlparse(extracted[i])
             IN  /\ parsed.fragment = <<>>
                 /\ parsed.path = <<>> \/ parsed.path[Len(parsed.path)] # "/"
                 /\ parsed.origin = Urlparse(page.seed).origin
                 /\ extracted[i] \notin page.visited
                 /\ AnchorsOf(extracted[i]) # {}
                 /\ \A k \in AnchorsOf(extracted[i]) :
                      page.anchors[k].href[1] \notin NonHttpPrefixes

\* C17: the entries a page adds to the frontier are the registration-
\* related links first and the other links second, each group in the
\* order of the first anchor of the page that gives the link
C17_EnqueuedInAnchorOrder ==
    link_pc = "enqueued" =>
        \A i, j \in 1..Len(frontier) :
            i < j =>
              LET a == frontier[i][1]
                  b == frontier[j][1]
                  First(l) == CHOOSE k \in AnchorsOf(l) :
                                 \A m \in AnchorsOf(l) : k <= m
              IN  /\ PageLinkIsReg(b) => PageLinkIsReg(a)
                  /\ PageLinkIsReg(a) = PageLinkIsReg(b) => First(a) < First(b)

\* C19: the orchestrator goes through the whole list whatever fails: the
\* k-th entry of the result list is that of the k-th provider, it is an
\* error entry exactly when the crawl of that provider failed, failed
\* counts the failed crawls, scraped + failed is the number of providers
\* processed, and when main is done every provider has been processed, so
\* that scraped + failed = total
C19_EveryProviderProcessed ==
    batch_pc \in {"loop", "done"} =>
        /\ results.total = Len(providers)
        /\ Len(results.providers) = Len(scrapes)
        /\ batch_i = Len(scrapes) + 1
        /\ \A k \in 1..Len(results.providers) :
             /\ results.providers[k].id = providers[k].id
             /\ results.providers[k].error <=> scrapes[k] = "failed"
        /\ results.failed =
              Cardinality({ k \in 1..Len(scrapes) : scrapes[k] = "failed" })
        /\ results.scraped + results.failed = Len(scrapes)
        /\ batch_pc = "done" =>
              /\ Len(scrapes) = Len(providers)
              /\ results.scraped + results.failed = results.total

\* main is done after the crawl of the first provider failed and that of
\* the second succeeded
C19_Witness ==
    /\ batch_pc = "done"
    /\ Len(providers) = 2
    /\ scrapes = <<"failed", "scraped">>
    /\ results.providers[1].error
    /\ ~results.providers[2].error
    /\ results.failed = 1

\* C20: an update, sent or reported, has a key only if the crawl found the
\* value it carries and the provider's stored value for the key is absent;
\* an update is sent only outside dry-run mode, for the provider of the
\* entry that reports it
C20_NeverOverwritesStoredField ==
    batch_pc \in {"loop", "done"} =>
        /\ \A k \in 1..Len(results.providers) :
             \A u \in results.providers[k].updates :
                /\ u[1] \in Fields
                /\ u[2] # None
                /\ u[2] = results.providers[k].found[u[1]]
                /\ providers[k].stored[u[1]] = None
        /\ \A i \in 1..Len(sent) :
             \E k \in 1..Len(results.providers) :
                /\ results.providers[k].id = sent[i].id
                /\ results.providers[k].updates = sent[i].updates
        /\ dry_run => sent = <<>>

\* outside dry-run mode an update was sent for a provider that held one of
\* the fields the crawl found, and the update leaves that field out
C20_Witness ==
    /\ ~dry_run
    /\ \E i \in 1..Len(sent) :
         \E k \in 1..Len(providers) :
            /\ providers[k].id = sent[i].id
            /\ providers[k].stored["registration_url"] # None
            /\ results.providers[k].found["registration_url"] # None
            /\ sent[i].updates # {}
            /\ \A u \in sent[i].updates : u[1] # "registration_url"

\* in dry-run mode an update was reported and none was sent
C20_WitnessDryRun ==
    /\ dry_run
    /\ batch_pc = "done"
    /\ \E k \in 1..Len(results.providers) : results.providers[k].updates # {}
    /\ sent = <<>>

\* the calendar days from 2020 to 2031, each with its '%Y-%m-%d' string
Calendar ==
    { << ToString(y) \o "-" \o Pad2(m) \o "-" \o Pad2(d),
         [y |-> y, m |-> m, d |-> d] >> :
        y \in 2020..2031, m \in 1..12, d \in 1..31 }

\* the string is the '%Y-%m-%d' form of a real calendar day that is not
\* before the day of the moment given
DayNotBefore(value, today) ==
    \E c \in Calendar :
        /\ c[1] = value
        /\ c[2].d <= DaysIn(c[2].y, c[2].m)
        /\ ~DayBefore(c[2], today)

\* C11: every value held in re_enrollment_date or new_registration_date,
\* whether the per-page extractor or the fallback pass stored it, is a date
\* that is not before the current date; a parsed date earlier than the
\* current date is never stored.
C11_StoredDatesNotBeforeToday ==
    date_pc # "idle" =>
        /\ dates.re_enrollment_date # None =>
               DayNotBefore(dates.re_enrollment_date, now)
        /\ dates.new_registration_date # None =>
               DayNotBefore(dates.new_registration_date, now)

\* the per-page extractor stored a date from a text whose keyword is
\* followed by a date of 2020 and, in the next token, by a date of today's
\* month and day
C11_Witness ==
    /\ date_pc = "extracted"
    /\ Len(text_lower) = 2
    /\ text_lower[1] =
         Token(NoMention, "re-enrollment", DateMention("long", 2020, 1, 5))
    /\ text_lower[2] = Token(NoMention, "", DateMention("short", 0, 6, 15))
    /\ dates.re_enrollment_date # None

\* the fallback pass stored a date from a text whose only keyword is one
\* that the per-page extractor does not have, after a date that is not a
\* calendar day
C11_WitnessFallback ==
    /\ date_pc = "fallback"
    /\ Len(text_lower) = 3
    /\ text_lower[1] = Token(NoMention, "", DateMention("slash", 2030, 2, 30))
    /\ text_lower[2] = Token(NoMention, "deadline", NoMention)
    /\ text_lower[3] = Token(NoMention, "", DateMention("short", 0, 6, 15))
    /\ dates.new_registration_date # None

\* C21: when update_program returns False the batch goes on, and the failed
\* counter of the summary reflects the failed update: it is at least the
\* number of updates that failed.
C21_FailedCountsUpdateFailures ==
    /\ batch_pc = "done" => Len(results.providers) = results.total
    /\ results.failed >=
           Cardinality({ k \in 1..Len(sent) : ~sent[k].ok })

\* the rank of a category in the lookup table
CategoryRank(category) ==
    CHOOSE i \in 1..Len(category_keywords) :
        category_keywords[i].category = category

\* the categories one of whose keywords occurs in the lowercased text
MatchingCategories ==
    { category_keywords[i].category : i \in
        { r \in 1..Len(category_keywords) :
            \E j \in 1..Len(body_text), keyword \in category_keywords[r].keywords :
                keyword \in KeywordsIn(body_text[j]) } }

\* C22: after category extraction the category field has between 1 and 3
\* entries: the first three categories, in the order of the lookup table,
\* one of whose keywords occurs in the lowercased text, or the single
\* fallback category when none does.
C22_FirstThreeCategoriesInTableOrder ==
    field_pc = "categorized" =>
        LET stored == data.category
            shown == { stored[i] : i \in 1..Len(stored) }
        IN  /\ Len(stored) \in 1..3
            /\ IF MatchingCategories = {}
               THEN stored = <<"creative">>
               ELSE /\ shown \subseteq MatchingCategories
                    /\ \A i, j \in 1..Len(stored) :
                          i < j =>
                            CategoryRank(stored[i]) < CategoryRank(stored[j])
                    /\ Len(stored) < 3 => shown = MatchingCategories
                    /\ \A c \in MatchingCategories \ shown :
                          \A d \in shown : CategoryRank(d) < CategoryRank(c)

\* categories were extracted from a text that matches five categories
C22_Witness ==
    /\ field_pc = "categorized"
    /\ Cardinality(MatchingCategories) = 5
    /\ data.category = <<"swimming", "art", "martial-arts">>

\* categories were extracted from a text that matches none
C22_WitnessFallback ==
    /\ field_pc = "categorized"
    /\ body_text # <<>>
    /\ MatchingCategories = {}
    /\ data.category = <<"creative">>

\* the places of the pieces of the text that are of one of the kinds
PlacesOf(kinds) == { j \in 1..Len(body_text) : body_text[j].kind \in kinds }

\* the first piece of the text of one of the kinds
FirstOf(kinds) ==
    body_text[CHOOSE j \in PlacesOf(kinds) : \A h \in PlacesOf(kinds) : j <= h]

\* the unit of the piece, when it has one, is stored as "per <unit>"
UnitStored(piece) ==
    piece.unit # "" => data.price_unit = "per " \o Lower(piece.unit)

\* C23: pricing extraction applies three strategies in fixed priority and
\* the first that matches wins: the word free gives price_min = price_max
\* = 0 and the description "Free" whatever dollar amounts the text has;
\* otherwise a dollar range gives price_min and price_max from its two
\* ends; otherwise a single dollar amount gives price_min = price_max =
\* that amount; the unit, when present, is stored as "per <unit>".
C23_PricingStrategiesInPriority ==
    field_pc \in {"priced", "categorized"} =>
        IF \E j \in PlacesOf({"words"}) : Lower(body_text[j].written) = "free"
        THEN /\ data.price_min = 0
             /\ data.price_max = 0
             /\ data.price_description = "Free"
        ELSE IF PlacesOf({"range"}) # {}
        THEN /\ data.price_min = Float(FirstOf({"range"}).low)
             /\ data.price_max = Float(FirstOf({"range"}).high)
             /\ UnitStored(FirstOf({"range"}))
        ELSE IF PlacesOf({"single"}) # {}
        THEN /\ data.price_min = Float(FirstOf({"single"}).low)
             /\ data.price_max = Float(FirstOf({"single"}).low)
             /\ UnitStored(FirstOf({"single"}))
        ELSE TRUE

\* pricing ran on a text with a dollar range followed by the word Free
C23_Witness ==
    /\ field_pc = "priced"
    /\ body_text = << AmountRange("100", "200", "week"), Words("Free") >>
    /\ data.price_min = 0
    /\ data.price_description = "Free"
    /\ data.price_unit = None

\* pricing ran on a text with a single amount followed by a range
C23_WitnessRange ==
    /\ field_pc = "priced"
    /\ body_text = << SingleAmount("20", ""),
                      AmountRange("1,000", "2,500", "") >>
    /\ data.price_min = 1000
    /\ data.price_max = 2500

\* pricing ran on the text "$150 per Month"
C23_WitnessSingle ==
    /\ field_pc = "priced"
    /\ body_text = << SingleAmount("150", "Month") >>
    /\ data.price_min = 150
    /\ data.price_max = 150
    /\ data.price_unit = "per month"
    /\ data.price_description = None

\* C24: in single-page mode (crawl false) no discovered link is added to
\* the frontier, so the loop fetches at most the seed URL and pages_crawled
\* never exceeds 1.
C24_SinglePageModeFetchesOnlySeed ==
    (pc # "idle" /\ ~crawl) =>
        /\ to_crawl \in { <<>>, << <<url, 0>> >> }
        /\ \A k \in 1..Len(fetches) : fetches[k].url = url
        /\ Len(fetches) <= 1
        /\ pages_crawled <= 1

\* a single-page crawl is over whose page had links, on a site of which
\* more pages and depth were allowed
C24_Witness ==
    /\ pc = "done"
    /\ ~crawl
    /\ max_pages > 1
    /\ max_depth > 0
    /\ registration_url # NoUrl
    /\ Len(fetches) = 1
    /\ fetches[1].ok /\ ~fetches[1].empty
    /\ pages_crawled = 1

\* an iteration of the while loop of scrape discards a frontier entry that
\* is already visited, or increases pages_crawled
IterationMakesProgress ==
    pc = "loop" =>
        \/ /\ current_url \in visited_urls
           /\ to_crawl' = Tail(to_crawl)
           /\ pages_crawled' = pages_crawled
        \/ pages_crawled' = pages_crawled + 1

\* C25: every crawl terminates: whatever the site and max_pages >= 1, the
\* loop of scrape reaches a stop condition (page limit reached, frontier
\* empty, or both dates set) after finitely many iterations, each of which
\* discards an already visited frontier entry or increases pages_crawled.
C25_EveryCrawlTerminates ==
    /\ <>(pc \in {"after", "done", "raised"})
    /\ [][IterationMakesProgress]_vars
    /\ [](pc \in {"after", "done"} =>
             \/ pages_crawled >= max_pages
             \/ to_crawl = <<>>
             \/ re_enrollment_date # None /\ new_registration_date # None)

\* the loop was left at the page limit after several iterations, with
\* entries still in the frontier and a date missing
C25_Witness ==
    /\ pc = "after"
    /\ max_pages >= 3
    /\ pages_crawled = max_pages
    /\ to_crawl # <<>>
    /\ re_enrollment_date = None

\* C26: the traversal is breadth-first: the frontier is consumed in FIFO
\* order starting from the seed at depth 0, so the depths of the pages
\* fetched one after the other never decrease, and no page at depth d + 1
\* is fetched while a frontier entry at depth d remains.
C26_BreadthFirstOrder ==
    pc # "idle" =>
        /\ fetches # <<>> => fetches[1].url = url /\ fetches[1].depth = 0
        /\ \A i, j \in 1..Len(fetches) :
              i < j => fetches[i].depth <= fetches[j].depth
        /\ \A i, j \in 1..Len(to_crawl) :
              i < j => to_crawl[i][2] <= to_crawl[j][2]
        /\ \A k \in 1..Len(fetches), j \in 1..Len(to_crawl) :
              fetches[k].depth <= to_crawl[j][2]

\* two pages of depth 1 were fetched and then one of depth 2
C26_Witness ==
    \E i, j, k \in 1..Len(fetches) :
        /\ i < j /\ j < k
        /\ fetches[i].depth = 1
        /\ fetches[j].depth = 1
        /\ fetches[k].depth = 2

\* the date that the context of a keyword gives on the page under study:
\* the ContextChars characters from the first occurrence of the keyword,
\* NoDate when the keyword is absent
DateNear(keyword) ==
    IF Find(text_lower, keyword) = -1 THEN NoDate
    ELSE parse_date_from_context(
             Context(text_lower, Find(text_lower, keyword),
                     Find(text_lower, keyword) + ContextChars), now)

\* what a category's field holds after the per-page extractor: the date of
\* the first keyword of the list that gives one, or what it held
FieldAfterKeywords(held, keywords) ==
    LET giving == { i \in 1..Len(keywords) : DateNear(keywords[i]) # NoDate }
    IN  IF giving = {} THEN held
        ELSE Strftime(DateNear(
                 keywords[CHOOSE i \in giving : \A h \in giving : i <= h]))

\* C27: for each date category the per-page extractor tries the keywords in
\* list order, looks at the first occurrence of each with the 300
\* characters that start at it, skips the keywords that are absent or whose
\* context gives no accepted date, and stops at the first keyword that
\* gives one; if none does, the field is left as it was.
C27_FirstKeywordWithDateWins ==
    [][(date_pc = "page" /\ date_pc' = "extracted") =>
          /\ dates'.re_enrollment_date =
                FieldAfterKeywords(dates.re_enrollment_date,
                                   re_enrollment_keywords)
          /\ dates'.new_registration_date =
                FieldAfterKeywords(dates.new_registration_date,
                                   new_registration_keywords)]_vars

\* the extractor ran on a text where the first keyword of the re-enrollment
\* list comes after a later keyword of the list, each with a date of its
\* own in its context, and stored the date of the first keyword of the list
C27_Witness ==
    /\ date_pc = "extracted"
    /\ Len(text_lower) = 3
    /\ text_lower[1] = Token(NoMention, "returning students begins",
                             DateMention("iso", 2030, 9, 1))
    /\ text_lower[2] =
         Token(NoMention, "re-enrollment", DateMention("long", 2020, 1, 5))
    /\ text_lower[3] = Token(NoMention, "", DateMention("short", 0, 6, 15))
    /\ now.m = 6
    /\ dates.re_enrollment_date \in {"2030-06-15", "2031-06-15"}
    /\ dates.new_registration_date = "2030-09-01"

\* the extractor ran on a text whose keyword has its date beyond the 300
\* characters, and left a field that was set as it was
C27_WitnessKept ==
    /\ date_pc = "extracted"
    /\ Len(text_lower) = 3
    /\ text_lower[1] =
         Token(NoMention, "re-enrollment", DateMention("long", 2020, 1, 5))
    /\ text_lower[2] = Filler
    /\ text_lower[3] = Token(NoMention, "", DateMention("short", 0, 6, 15))
    /\ dates.re_enrollment_date = "2030-10-05"

\* a date is on or after the calendar day of the moment given
OnOrAfterDay(date, today) == ~DayBefore(date, today)

\* the date a match stands for when dates are compared by calendar day: a
\* match without a year takes the current year unless its day has passed,
\* and a date is accepted when it is on or after today's day
DateOfMatchByDay(match, today) ==
    LET year == IF match.n = 3 THEN match.y
                ELSE IF OnOrAfterDay([y |-> today.y, m |-> match.m,
                                      d |-> match.d], today)
                THEN today.y ELSE today.y + 1
        date == [y |-> year, m |-> match.m, d |-> match.d]
    IN  IF match.n = 2 /\ ~ValidDate(today.y, match.m, match.d) THEN NoDate
        ELSE IF ~ValidDate(year, match.m, match.d) THEN NoDate
        ELSE IF OnOrAfterDay(date, today) THEN date
        ELSE NoDate

\* the date a context gives when dates are compared by calendar day: that
\* of the first pattern, in order, whose first match is accepted
ContextDateByDay(context, today) ==
    LET DateOf(i) ==
            IF FirstMatch(date_patterns[i], context).n = 0 THEN NoDate
            ELSE DateOfMatchByDay(FirstMatch(date_patterns[i], context), today)
        giving == { i \in 1..Len(date_patterns) : DateOf(i) # NoDate }
    IN  IF giving = {} THEN NoDate
        ELSE DateOf(CHOOSE i \in giving : \A h \in giving : i <= h)

\* C28: a parsed date is accepted by parse_date_from_context if and only if
\* it is on or after the current calendar date: a date equal to today's
\* date is accepted, and a date without a year equal to today's month and
\* day is resolved to the current year rather than the next.  So the date
\* that the context of each keyword of the page gives is the one that the
\* comparison by calendar day gives.
C28_AcceptedIffOnOrAfterToday ==
    date_pc = "extracted" =>
        \A i \in 1..Len(new_registration_keywords) :
            LET keyword_idx == Find(text_lower, new_registration_keywords[i])
                context == Context(text_lower, keyword_idx,
                                   keyword_idx + ContextChars)
            IN  keyword_idx # -1 =>
                    parse_date_from_context(context, now) =
                        ContextDateByDay(context, now)

\* a step in which the fallback fetches the registration page
FallbackFetchStep == fallback_fetches' # fallback_fetches

\* C29: one crawl fetches at most max_pages + 1 pages: the loop at most
\* max_pages and the fallback after it at most one more; the fallback
\* fetch leaves pages_crawled, visited_urls and crawled_pages as they were
\* and sets no field other than the two dates.
C29_AtMostOneFetchBeyondMaxPages ==
    /\ [](pc # "idle" =>
             /\ Len(fetches) <= max_pages
             /\ Len(fallback_fetches) <= 1
             /\ Len(fetches) + Len(fallback_fetches) <= max_pages + 1)
    /\ [][FallbackFetchStep =>
             /\ fetches' = fetches
             /\ pages_crawled' = pages_crawled
             /\ visited_urls' = visited_urls
             /\ crawled_pages' = crawled_pages
             /\ registration_url' = registration_url
             /\ field_runs' = field_runs
             /\ registration_runs' = registration_runs]_vars

\* a crawl is over that fetched max_pages pages in its loop, several of
\* them, and the registration page after it
C29_Witness ==
    /\ pc = "done"
    /\ max_pages >= 2
    /\ Len(fetches) = max_pages
    /\ Len(fallback_fetches) = 1
    /\ new_registration_date # None

\* C30: in every state of a crawl pages_crawled is the number of elements
\* of visited_urls, every URL of crawled_pages is in visited_urls, and
\* crawled_pages is at most pages_crawled long, shorter exactly when some
\* fetch failed.
C30_CountersAgree ==
    pc # "idle" =>
        /\ pages_crawled = Cardinality(visited_urls)
        /\ \A k \in 1..Len(crawled_pages) : crawled_pages[k] \in visited_urls
        /\ Len(crawled_pages) <= pages_crawled
        /\ Len(crawled_pages) < pages_crawled
              <=> \E k \in 1..Len(fetches) : ~fetches[k].ok

\* a crawl in which a fetch failed between two that succeeded
C30_Witness ==
    /\ Len(fetches) = 3
    /\ fetches[1].ok /\ ~fetches[2].ok /\ fetches[3].ok
    /\ pages_crawled = 3
    /\ Len(crawled_pages) = 2

====
